---------------------------- MODULE Spec2Model ----------------------------
(* Carbon-intensity ETL pipeline (src/main.py) and the renewable-percentage *)
(* computation of the dashboard (src/dashboard.py).                         *)
(*                                                                          *)
(* Python values are tagged records, so that values of different Python     *)
(* types can be compared: None, int/float, str, list, dict, bool.  A dict   *)
(* is a function from its keys (strings) to values; a list is a sequence.   *)
(* Time is counted in whole hours.  Percentages and forecasts are integers.  *)
EXTENDS Integers, Sequences, FiniteSets, TLC

VARIABLES
    pc,            \* position of the process: __main__, run_etl_pipeline, run_cleanup_only
    env_ok,        \* SUPABASE_URL and SUPABASE_KEY are both set (main.py:246-249)
    cleanup_only,  \* args.cleanup_only (main.py:242-244)
    now,           \* the clock: the instant NOW() of the store returns
    utcoffset,     \* hours by which the wall clock of the process, which datetime.now()
                   \* reads, is ahead of the zone in which the store reads a timestamp
                   \* that names no zone
    raw,           \* intensity_raw, generation_raw, regional_raw (main.py:185-187)
    transformed,   \* intensity_transformed, ... (main.py:190-192)
    saved,         \* intensity_saved, ... (main.py:195-197)
    cutoff_iso,    \* cutoff_iso of run_cleanup_only (main.py:207)
    store,         \* the three tables of the store, each a sequence of rows
    store0,        \* the tables as they were when the process started
    calls,         \* the external calls made so far (HTTP GETs, inserts, deletes) and their outcomes
    escaped,       \* an exception has left run_etl_pipeline or run_cleanup_only
    invocation,    \* how many times the program has been started
    arg,           \* GenSpec, RegSpec, DashSpec: the argument of the function applied
    ret            \* and its result

vars == <<pc, env_ok, cleanup_only, now, utcoffset, raw, transformed, saved, cutoff_iso,
          store, store0, calls, escaped, invocation, arg, ret>>

----------------------------------------------------------------------------
(* Python values *)

None == [t |-> "null"]
Unbound == [t |-> "unbound"]
JNum(n) == [t |-> "num", n |-> n]
JStr(s) == [t |-> "str", s |-> s]
JBool(b) == [t |-> "bool", b |-> b]
JArr(a) == [t |-> "arr", a |-> a]
JObj(o) == [t |-> "obj", o |-> o]
\* a str holding the JSON text of v (the result of json.dumps)
JText(v) == [t |-> "json_str", v |-> v]

EmptyDict == JObj(<<>>)
EmptyList == JArr(<<>>)
NA == JStr("N/A")

IsDict(v) == v.t = "obj"
IsList(v) == v.t = "arr"
IsStr(v) == v.t \in {"str", "json_str"}
IsNum(v) == v.t = "num"

\* bool(v): what `if not data` tests
Truthy(v) ==
    CASE v.t = "null" -> FALSE
      [] v.t = "bool" -> v.b
      [] v.t = "num" -> v.n # 0
      [] v.t = "str" -> v.s # ""
      [] v.t = "json_str" -> TRUE
      [] v.t = "arr" -> Len(v.a) > 0
      [] v.t = "obj" -> DOMAIN v.o # {}

HasKey(d, k) == k \in DOMAIN d.o

\* d.get(k, default) of a dict d
Get(d, k, default) == IF HasKey(d, k) THEN d.o[k] ELSE default

\* v[0] does not raise: a non-empty list or a non-empty str
\* (an empty list or str raises IndexError, a dict with JSON keys KeyError,
\* None or a number TypeError)
CanIndex0(v) ==
    \/ IsList(v) /\ Len(v.a) > 0
    \/ v.t = "str" /\ v.s # ""
    \/ v.t = "json_str"

\* v[0] where CanIndex0(v): the first element of a list, a one-character str of a str
Index0(v) == IF IsList(v) THEN v.a[1] ELSE JStr("c")

Reverse(s) == [i \in 1..Len(s) |-> s[Len(s) + 1 - i]]

----------------------------------------------------------------------------
(* sorted(items, key=..., reverse=True): descending by key; the sort is    *)
(* stable, and reverse=True keeps it so: items with equal keys stay in     *)
(* their input order.                                                      *)

\* the elements sorted() iterates over: those of a list; an empty dict or an
\* empty str has none
IterItems(v) == IF IsList(v) THEN v.a ELSE <<>>

\* the keys can be compared with <: numbers (a single key is never compared;
\* the keys of the bodies below are numbers or None)
Comparable(keys) == Len(keys) >= 2 => \A i \in 1..Len(keys) : IsNum(keys[i])

\* the number compared for a key (a key that is no number is never compared)
KeyNum(key) == IF IsNum(key) THEN key.n ELSE 0

\* ties in reverse input order: what reversing an ascending stable sort gives
PlaceOf_unstable(keys, i) ==
    Cardinality({j \in 1..Len(keys) : KeyNum(keys[j]) > KeyNum(keys[i])})
        + Cardinality({j \in i..Len(keys) : KeyNum(keys[j]) = KeyNum(keys[i])})

\* where item i goes: behind the items with a greater key and behind the
\* earlier items with the same key
PlaceOf(keys, i) ==
    Cardinality({j \in 1..Len(keys) : KeyNum(keys[j]) > KeyNum(keys[i])})
        + Cardinality({j \in 1..i : KeyNum(keys[j]) = KeyNum(keys[i])})

\* items sorted by their keys, descending, where Comparable(keys)
SortedBy(items, keys) ==
    [p \in 1..Len(items) |->
        items[CHOOSE i \in 1..Len(items) : PlaceOf(keys, i) = p]]

\* s[:n + 1]
Take_one_more(s, n) == SubSeq(s, 1, IF Len(s) < n + 1 THEN Len(s) ELSE n + 1)

\* s[:n]
Take(s, n) == SubSeq(s, 1, IF Len(s) < n THEN Len(s) ELSE n)

----------------------------------------------------------------------------
(* The Transformer: main.py:46-101 *)

\* number of regions kept by transform_regional_data
TopK == 10

\* the record built from d = data.get('data', [{}]); None where an
\* exception is raised and caught (main.py:59-61)
IntensityRecord(d) ==
    IF ~CanIndex0(d) THEN None
    ELSE LET intensity_data == Index0(d) IN
      IF ~IsDict(intensity_data) THEN None
      ELSE LET intensity == Get(intensity_data, "intensity", EmptyDict) IN
        IF ~IsDict(intensity) THEN None
        ELSE JObj([from_time |-> Get(intensity_data, "from", NA),
                   to_time |-> Get(intensity_data, "to", NA),
                   forecast |-> Get(intensity, "forecast", None),
                   actual |-> Get(intensity, "actual", None),
                   index |-> Get(intensity, "index", NA)])

\* (data.get('data') or [{}])[0]: the default also replaces a falsy `data`
transform_intensity_data_or_default(data) ==
    IF ~Truthy(data) THEN None
    ELSE IF ~IsDict(data) THEN None
    ELSE IntensityRecord(IF Truthy(Get(data, "data", None))
                         THEN Get(data, "data", None)
                         ELSE JArr(<<EmptyDict>>))

transform_intensity_data(data) ==
    IF ~Truthy(data) THEN None
    ELSE IF ~IsDict(data) THEN None
    ELSE IntensityRecord(Get(data, "data", JArr(<<EmptyDict>>)))

\* x['perc'] does not raise
HasPerc(x) == IsDict(x) /\ HasKey(x, "perc")
PercKey(x) == x.o["perc"]
PercKeys(items) == [i \in 1..Len(items) |-> PercKey(items[i])]

\* sorted(mix, key=lambda x: x['perc'], reverse=True) does not raise: mix is
\* iterable, the key is defined on every element, the keys can be compared.
\* A non-empty dict or str iterates over strs, on which x['perc'] raises.
CanSortByPerc(mix) ==
    \/ mix = EmptyDict
    \/ mix = JStr("")
    \/ /\ IsList(mix)
       /\ \A i \in 1..Len(mix.a) : HasPerc(mix.a[i])
       /\ Comparable(PercKeys(mix.a))

transform_generation_data(data) ==
    IF ~Truthy(data) THEN None
    ELSE IF ~IsDict(data) THEN None
    ELSE LET generation_data == Get(data, "data", EmptyDict) IN
      IF ~IsDict(generation_data) THEN None
      ELSE LET mix == Get(generation_data, "generationmix", EmptyList) IN
        IF ~CanSortByPerc(mix) THEN None
        ELSE LET mix_sorted == SortedBy(IterItems(mix), PercKeys(IterItems(mix))) IN
          JObj([from_time |-> Get(generation_data, "from", NA),
                to_time |-> Get(generation_data, "to", NA),
                generation_mix |-> JText(JArr(mix_sorted))])

\* x.get('intensity', {}).get('forecast', 0) does not raise
HasForecastKey(x) == IsDict(x) /\ IsDict(Get(x, "intensity", EmptyDict))
ForecastKey(x) == Get(Get(x, "intensity", EmptyDict), "forecast", JNum(0))
ForecastKeys(items) == [i \in 1..Len(items) |-> ForecastKey(items[i])]

\* sorted(regions_data, key=lambda x: ..., reverse=True) does not raise
CanSortByForecast(regions) ==
    \/ regions = EmptyDict
    \/ regions = JStr("")
    \/ /\ IsList(regions)
       /\ \A i \in 1..Len(regions.a) : HasForecastKey(regions.a[i])
       /\ Comparable(ForecastKeys(regions.a))

transform_regional_data(data) ==
    IF ~Truthy(data) THEN None
    ELSE IF ~IsDict(data) THEN None
    ELSE LET d == Get(data, "data", JArr(<<EmptyDict>>)) IN
      IF ~CanIndex0(d) THEN None
      ELSE LET first == Index0(d) IN
        IF ~IsDict(first) THEN None
        ELSE LET regions_data == Get(first, "regions", EmptyList) IN
          IF ~CanSortByForecast(regions_data) THEN None
          ELSE LET regions_sorted ==
                     SortedBy(IterItems(regions_data),
                              ForecastKeys(IterItems(regions_data))) IN
            JObj([from_time |-> Get(first, "from", NA),
                  to_time |-> Get(first, "to", NA),
                  regions |-> JArr(Take(regions_sorted, TopK))])

----------------------------------------------------------------------------
(* Response bodies of the upstream API that the pipeline is run against *)

ValidIntensity ==
    JObj([data |-> JArr(<<JObj([from |-> JStr("t0"), to |-> JStr("t1"),
        intensity |-> JObj([forecast |-> JNum(120), actual |-> JNum(118),
                            index |-> JStr("moderate")])])>>)])

\* a non-empty body without a `data` key
ErrorBody == JObj([error |-> JObj([code |-> JStr("500")])])

\* bodies whose `data` is present and is not a non-empty array of objects
\* with a well-formed `intensity`
MalformedIntensity ==
    { JObj([data |-> EmptyList]),
      JObj([data |-> None]),
      JObj([data |-> JNum(1)]),
      JObj([data |-> JStr("down")]),
      JObj([data |-> JStr("")]),
      JObj([data |-> JObj([from |-> JStr("t0")])]),
      JObj([data |-> EmptyDict]),
      JObj([data |-> JArr(<<None>>)]),
      JObj([data |-> JArr(<<JNum(1)>>)]),
      JObj([data |-> JArr(<<JObj([intensity |-> None])>>)]) }

\* bodies whose `data` is a non-empty array of objects, some fields missing
PartialIntensity ==
    { JObj([data |-> JArr(<<EmptyDict>>)]),
      JObj([data |-> JArr(<<JObj([from |-> JStr("t0"), to |-> JStr("t1")])>>)]),
      JObj([data |-> JArr(<<JObj([intensity |-> JObj([forecast |-> JNum(120)])])>>)]) }

\* falsy bodies: JSON null, {}, []
FalsyBodies == {None, EmptyDict, EmptyList}

IntensityBodies ==
    {ValidIntensity, ErrorBody} \cup MalformedIntensity \cup PartialIntensity
        \cup FalsyBodies

Entry(fuel, perc) == JObj([fuel |-> JStr(fuel), perc |-> JNum(perc)])

ValidGeneration ==
    JObj([data |-> JObj([from |-> JStr("t0"), to |-> JStr("t1"),
        generationmix |-> JArr(<<Entry("coal", 5), Entry("wind", 40),
                                 Entry("solar", 10), Entry("gas", 40)>>)])])

GenerationBodies ==
    { ValidGeneration,
      ErrorBody,
      JObj([data |-> JObj([from |-> JStr("t0"), to |-> JStr("t1")])]),
      JObj([data |-> JObj([generationmix |->
          JArr(<<Entry("gas", 40), JObj([fuel |-> JStr("wind")])>>)])]),
      JObj([data |-> EmptyList]) }

Region(id, forecast) ==
    JObj([regionid |-> JNum(id),
          intensity |-> JObj([forecast |-> JNum(forecast), index |-> JStr("low")])])

ValidRegional ==
    JObj([data |-> JArr(<<JObj([from |-> JStr("t0"), to |-> JStr("t1"),
        regions |-> JArr(<<Region(1, 120), Region(2, 95), Region(3, 200),
                           Region(4, 60)>>)])>>)])

RegionalBodies ==
    { ValidRegional,
      ErrorBody,
      JObj([data |-> EmptyList]),
      JObj([data |-> JArr(<<JObj([regions |-> JArr(<<Region(1, 120), None>>)])>>)]),
      None }

Kinds == {"intensity", "generation", "regional"}

Bodies(k) ==
    CASE k = "intensity" -> IntensityBodies
      [] k = "generation" -> GenerationBodies
      [] k = "regional" -> RegionalBodies

Transform(k, data) ==
    CASE k = "intensity" -> transform_intensity_data(data)
      [] k = "generation" -> transform_generation_data(data)
      [] k = "regional" -> transform_regional_data(data)

----------------------------------------------------------------------------
(* The store: tables carbon_intensity, generation_mix, regional_intensity. *)
(* A row is the inserted record plus created_at, which the store sets to   *)
(* NOW() (main.py:154, 163, 172).                                          *)

\* timedelta(days=7)
RetentionDays == 7
HoursPerDay == 24
Retention == RetentionDays * HoursPerDay

TableOf(k) ==
    CASE k = "intensity" -> "carbon_intensity"
      [] k = "generation" -> "generation_mix"
      [] k = "regional" -> "regional_intensity"

Tables == {TableOf(k) : k \in Kinds}

Row(data, t) == [created_at |-> t, data |-> data]

\* table(...).insert(data).execute() when it succeeds
Insert(st, k, data, t) ==
    [st EXCEPT ![TableOf(k)] = Append(@, Row(data, t))]

\* the zones a host can be in, against the zone of the store: behind it, the
\* same, ahead of it
UtcOffsets == {-1, 0, 1}

\* datetime.now(): the wall clock of the host, without a zone
datetime_now == now + utcoffset

\* datetime.isoformat() of a datetime without a zone: the fixed-width,
\* zero-padded digits of the wall clock, and no offset
isoformat(t) == [t |-> "iso_str", d |-> <<t \div 100, (t \div 10) % 10, t % 10>>]

\* the store reading a timestamp literal that names no zone, for a comparison
\* with a TIMESTAMPTZ column: the digits, taken in its own zone
ParseTimestamp(s) == s.d[1] * 100 + s.d[2] * 10 + s.d[3]

\* a filter that also matches a row written at the cutoff itself
OlderThan_lte(created_at, cutoff) == created_at <= ParseTimestamp(cutoff)

\* .lt('created_at', cutoff)
OlderThan(created_at, cutoff) == created_at < ParseTimestamp(cutoff)

Keep(cutoff, r) == ~OlderThan(r.created_at, cutoff)

\* table(...).delete().lt('created_at', cutoff).execute() when it succeeds
Delete(st, k, cutoff) ==
    [st EXCEPT ![TableOf(k)] = SelectSeq(@, LAMBDA r : Keep(cutoff, r))]

\* the clock when the process starts
StartTime == Retention + 2

\* rows written by earlier cycles: one hour before the instant seven days
\* before the start, exactly at it, one hour after it
PastRow(k, age) ==
    Row(Transform(k, CASE k = "intensity" -> ValidIntensity
                       [] k = "generation" -> ValidGeneration
                       [] k = "regional" -> ValidRegional),
        StartTime - age)

\* a table when the process starts: empty, holding one old row, or holding
\* an old row, a row of exactly seven days and a newer row
TableShapes == {"empty", "old", "mixed"}

InitTable(k, shape) ==
    CASE shape = "empty" -> <<>>
      [] shape = "old" -> <<PastRow(k, Retention + 1)>>
      [] shape = "mixed" -> <<PastRow(k, Retention + 1), PastRow(k, Retention),
                              PastRow(k, Retention - 1)>>

StoreOf(shapes) ==
    [t \in Tables |->
        LET k == CHOOSE j \in Kinds : TableOf(j) = t IN InitTable(k, shapes[k])]

\* the three tables alike, or each of a different shape
InitShapes ==
    {[k \in Kinds |-> shape] : shape \in TableShapes}
        \cup {[intensity |-> "mixed", generation |-> "old", regional |-> "empty"]}

NoLocals == [k \in Kinds |-> Unbound]

----------------------------------------------------------------------------
(* __main__ (main.py:239-258) *)

Init ==
    /\ pc = "main"
    /\ env_ok \in BOOLEAN
    /\ cleanup_only \in BOOLEAN
    /\ now = StartTime
    /\ utcoffset \in UtcOffsets
    /\ raw = NoLocals
    /\ transformed = NoLocals
    /\ saved = NoLocals
    /\ cutoff_iso = Unbound
    /\ store \in {StoreOf(shapes) : shapes \in InitShapes}
    /\ store0 = store
    /\ calls = <<>>
    /\ escaped = FALSE
    /\ invocation = 1
    /\ arg = Unbound
    /\ ret = Unbound

Main ==
    /\ pc = "main"
    /\ pc' = IF ~env_ok THEN "exit_1"
             ELSE IF cleanup_only THEN "cleanup" ELSE "extract_intensity"
    /\ UNCHANGED <<store0, env_ok, cleanup_only, now, utcoffset, raw, transformed, saved,
                   cutoff_iso, store, calls, escaped, invocation, arg, ret>>

----------------------------------------------------------------------------
(* run_etl_pipeline (main.py:176-200) *)

Call(op, k, outcome) == [op |-> op, kind |-> k, outcome |-> outcome]

\* requests.exceptions.RequestException: a network error, a non-success
\* status (raise_for_status), a body that is not JSON (JSONDecodeError of
\* requests, a RequestException since requests 2.27)
FetchErrors == {"network_error", "bad_status", "invalid_json"}

\* the exception leaves extract_*_data and is caught by run_etl_pipeline
\* (main.py:199), which ends the cycle
OnFetchError_raise(k, next) ==
    /\ pc' = "done"
    /\ UNCHANGED raw

\* except RequestException: return None (main.py:24-26)
OnFetchError(k, next) ==
    /\ pc' = next
    /\ raw' = [raw EXCEPT ![k] = None]

\* X_raw = self.extract_X_data()
Extract(k, next) ==
    /\ \/ \E e \in FetchErrors :
            /\ calls' = Append(calls, Call("get", k, e))
            /\ OnFetchError(k, next)
       \/ \E body \in Bodies(k) :
            /\ calls' = Append(calls, Call("get", k, "ok"))
            /\ raw' = [raw EXCEPT ![k] = body]
            /\ pc' = next
    /\ UNCHANGED <<store0, env_ok, cleanup_only, now, utcoffset, transformed, saved, cutoff_iso,
                   store, escaped, invocation, arg, ret>>

ExtractIntensity == pc = "extract_intensity" /\ Extract("intensity", "extract_generation")
ExtractGeneration == pc = "extract_generation" /\ Extract("generation", "extract_regional")
ExtractRegional == pc = "extract_regional" /\ Extract("regional", "transform_intensity")

\* X_transformed = self.transform_X_data(X_raw)
TransformStep(k, next) ==
    /\ transformed' = [transformed EXCEPT ![k] = Transform(k, raw[k])]
    /\ pc' = next
    /\ UNCHANGED <<store0, env_ok, cleanup_only, now, utcoffset, raw, saved, cutoff_iso, store,
                   calls, escaped, invocation, arg, ret>>

TransformIntensity == pc = "transform_intensity" /\ TransformStep("intensity", "transform_generation")
TransformGeneration == pc = "transform_generation" /\ TransformStep("generation", "transform_regional")
TransformRegional == pc = "transform_regional" /\ TransformStep("regional", "load_intensity")

\* no guard: the insert is attempted whatever the record is
SkipLoad_never(data) == FALSE

\* if not data: return False (main.py:105, 118, 131)
SkipLoad(data) == ~Truthy(data)

\* the exception leaves load_*_data and is caught by run_etl_pipeline
\* (main.py:199), which ends the cycle
OnInsertError_raise(k, next) ==
    /\ pc' = "done"
    /\ UNCHANGED saved

\* except Exception: return False (main.py:112-114)
OnInsertError(k, next) ==
    /\ pc' = next
    /\ saved' = [saved EXCEPT ![k] = JBool(FALSE)]

\* X_saved = self.load_X_data(X_transformed)
Load(k, next) ==
    /\ IF SkipLoad(transformed[k])
       THEN /\ saved' = [saved EXCEPT ![k] = JBool(FALSE)]
            /\ pc' = next
            /\ UNCHANGED <<store, calls>>
       ELSE \/ /\ calls' = Append(calls, Call("insert", k, "ok"))
               /\ store' = Insert(store, k, transformed[k], now)
               /\ saved' = [saved EXCEPT ![k] = JBool(TRUE)]
               /\ pc' = next
            \/ /\ calls' = Append(calls, Call("insert", k, "error"))
               /\ OnInsertError(k, next)
               /\ UNCHANGED store
    /\ UNCHANGED <<store0, env_ok, cleanup_only, now, utcoffset, raw, transformed, cutoff_iso,
                   escaped, invocation, arg, ret>>

LoadIntensity == pc = "load_intensity" /\ Load("intensity", "load_generation")
LoadGeneration == pc = "load_generation" /\ Load("generation", "load_regional")
LoadRegional == pc = "load_regional" /\ Load("regional", "done")

----------------------------------------------------------------------------
(* run_cleanup_only (main.py:202-236) *)

\* cutoff_date = datetime.now() - timedelta(days=7); cutoff_iso = ...isoformat()
CleanupStart ==
    /\ pc = "cleanup"
    /\ cutoff_iso' = isoformat(datetime_now - Retention)
    /\ pc' = "delete_intensity"
    /\ UNCHANGED <<store0, env_ok, cleanup_only, now, utcoffset, raw, transformed, saved, store,
                   calls, escaped, invocation, arg, ret>>

\* no handler: the exception leaves run_cleanup_only
OnDeleteError_escapes ==
    /\ pc' = "crashed"
    /\ escaped' = TRUE

\* except Exception as e: print(...) (main.py:235-236): the one handler
\* around the three deletes; the function returns
OnDeleteError ==
    /\ pc' = "done"
    /\ UNCHANGED escaped

DeleteStep(k, next) ==
    /\ \/ /\ calls' = Append(calls, Call("delete", k, "ok"))
          /\ store' = Delete(store, k, cutoff_iso)
          /\ pc' = next
          /\ UNCHANGED escaped
       \/ /\ calls' = Append(calls, Call("delete", k, "error"))
          /\ OnDeleteError
          /\ UNCHANGED store
    /\ UNCHANGED <<store0, env_ok, cleanup_only, now, utcoffset, raw, transformed, saved,
                   cutoff_iso, invocation, arg, ret>>

DeleteIntensity == pc = "delete_intensity" /\ DeleteStep("intensity", "delete_generation")
DeleteGeneration == pc = "delete_generation" /\ DeleteStep("generation", "delete_regional")
DeleteRegional == pc = "delete_regional" /\ DeleteStep("regional", "done")

\* one cycle run as three pipelines one after another: each resource is
\* fetched, transformed and loaded before the next resource is fetched
Next_pipelined ==
    \/ Main
    \/ pc = "extract_intensity" /\ Extract("intensity", "transform_intensity")
    \/ pc = "transform_intensity" /\ TransformStep("intensity", "load_intensity")
    \/ pc = "load_intensity" /\ Load("intensity", "extract_generation")
    \/ pc = "extract_generation" /\ Extract("generation", "transform_generation")
    \/ pc = "transform_generation" /\ TransformStep("generation", "load_generation")
    \/ pc = "load_generation" /\ Load("generation", "extract_regional")
    \/ pc = "extract_regional" /\ Extract("regional", "transform_regional")
    \/ pc = "transform_regional" /\ TransformStep("regional", "load_regional")
    \/ pc = "load_regional" /\ Load("regional", "done")
    \/ CleanupStart
    \/ DeleteIntensity \/ DeleteGeneration \/ DeleteRegional

Next ==
    \/ Main
    \/ ExtractIntensity \/ ExtractGeneration \/ ExtractRegional
    \/ TransformIntensity \/ TransformGeneration \/ TransformRegional
    \/ LoadIntensity \/ LoadGeneration \/ LoadRegional
    \/ CleanupStart
    \/ DeleteIntensity \/ DeleteGeneration \/ DeleteRegional

Spec == Init /\ [][Next]_vars

\* a start on a host one hour ahead of the store's zone, with every table
\* holding a row older than seven days, a row of exactly seven days and a
\* newer row
LiveInit ==
    /\ Init
    /\ utcoffset = 1
    /\ store = StoreOf([k \in Kinds |-> "mixed"])

\* the process is single-threaded and runs each statement after the last
LiveSpec == LiveInit /\ [][Next]_vars /\ WF_vars(Next)

----------------------------------------------------------------------------
(* What the trace of external calls says about a run *)

Called(op, k) == \E i \in 1..Len(calls) : calls[i].op = op /\ calls[i].kind = k

CallCount(op, k) ==
    Cardinality({i \in 1..Len(calls) : calls[i].op = op /\ calls[i].kind = k})

Outcome(op, k, outcome) ==
    \E i \in 1..Len(calls) :
        calls[i].op = op /\ calls[i].kind = k /\ calls[i].outcome = outcome

FetchFailed(k) == \E e \in FetchErrors : Outcome("get", k, e)
FetchOk(k) == Outcome("get", k, "ok")

\* the resource's fetch succeeded and its transform returns a record
Transformable(k) == FetchOk(k) /\ raw[k] # Unbound /\ Transform(k, raw[k]) # None

\* the resource's fetch failed, or its transform raised or returned None
ResourceFailed(k) ==
    \/ FetchFailed(k)
    \/ FetchOk(k) /\ raw[k] # Unbound /\ Transform(k, raw[k]) = None

\* the table of kind k holds the snapshot of this cycle
Inserted(k) ==
    \E i \in 1..Len(store[TableOf(k)]) :
        store[TableOf(k)][i] = Row(Transform(k, raw[k]), now)

EtlDone == pc = "done" /\ env_ok /\ ~cleanup_only
CleanupDone == pc = "done" /\ env_ok /\ cleanup_only

----------------------------------------------------------------------------
\* C1: resource isolation.  When an ETL cycle has ended, for every resource R
\* whose fetch failed or whose transform raised or returned null, each other
\* resource whose fetch succeeded and whose transform returned a record had
\* its insert attempted, and where that insert succeeded its snapshot is in
\* its table.
C1_ResourceIsolation ==
    EtlDone =>
        \A r \in Kinds : ResourceFailed(r) =>
            \A k \in Kinds \ {r} : Transformable(k) =>
                /\ Called("insert", k)
                /\ Outcome("insert", k, "ok") => Inserted(k)

\* the intensity fetch failed and both other snapshots were written
C1_Witness ==
    /\ EtlDone
    /\ FetchFailed("intensity")
    /\ Outcome("insert", "generation", "ok") /\ Inserted("generation")
    /\ Outcome("insert", "regional", "ok") /\ Inserted("regional")
    /\ Len(store["carbon_intensity"]) = Len(store0["carbon_intensity"])

----------------------------------------------------------------------------
\* C2: retention failure isolation, as claimed.  When a sweep has ended and
\* the delete of one kind failed, the deletes of the other two kinds were
\* attempted, whichever kind failed.
C2_DeleteIsolation ==
    CleanupDone =>
        \A k \in Kinds : Outcome("delete", k, "error") =>
            \A j \in Kinds \ {k} : Called("delete", j)

----------------------------------------------------------------------------
AllDeleted == \A k \in Kinds : Outcome("delete", k, "ok")

\* the rows of a table written at or after now - 7 days, in their order
Recent(table) == SelectSeq(table, LAMBDA r : r.created_at >= now - Retention)

\* C3: retention sweep result, as claimed.  When a sweep has ended with no
\* delete failure, each table holds exactly the rows it held at the start
\* whose written_at is not older than now - 7 days, unchanged and in their
\* order: no older row remains and no newer row is missing.
C3_SweepResult ==
    (CleanupDone /\ AllDeleted) =>
        \A k \in Kinds : store[TableOf(k)] = Recent(store0[TableOf(k)])

\* what the sweep leaves in every zone: the rows written at or after the
\* instant the store reads from cutoff_iso, which is now - 7 days moved by
\* the hours the host's wall clock is ahead of the store's zone
C3_SweepResult_ShiftedCutoff ==
    (CleanupDone /\ AllDeleted) =>
        \A k \in Kinds : store[TableOf(k)] =
            SelectSeq(store0[TableOf(k)],
                      LAMBDA r : r.created_at >= now + utcoffset - Retention)

----------------------------------------------------------------------------
\* `data` is absent or malformed: missing key, empty array, non-array
DataAbsent(body) == ~IsDict(body) \/ ~HasKey(body, "data")
DataMalformed(body) ==
    /\ IsDict(body) /\ HasKey(body, "data")
    /\ ~IsList(body.o["data"]) \/ body.o["data"] = EmptyList

IntensityTransformed == FetchOk("intensity") /\ transformed["intensity"] # Unbound

DefaultIntensity ==
    JObj([from_time |-> NA, to_time |-> NA, forecast |-> None, actual |-> None,
          index |-> NA])

----------------------------------------------------------------------------
\* C8: load short-circuit.  In a cycle at most one insert per kind is
\* attempted, and an insert of a kind is attempted only after that
\* resource's fetch succeeded and its transform returned a record, which is
\* the record inserted; a table grows by at most one row.
C8_LoadShortCircuit ==
    \A k \in Kinds :
        /\ CallCount("insert", k) <= 1
        /\ Len(store[TableOf(k)]) <= Len(store0[TableOf(k)]) + 1
        /\ Called("insert", k) =>
              /\ FetchOk(k)
              /\ transformed[k] \notin {None, Unbound}
              /\ transformed[k] = Transform(k, raw[k])

\* a cycle ended in which the intensity fetch failed and the generation
\* transform returned null: neither was loaded, the regional record was
C8_Witness ==
    /\ EtlDone
    /\ FetchFailed("intensity") /\ ~Called("insert", "intensity")
    /\ FetchOk("generation") /\ transformed["generation"] = None
    /\ ~Called("insert", "generation")
    /\ Outcome("insert", "regional", "ok")

----------------------------------------------------------------------------
\* the rows a table held at the start are still its first rows
KeepsOldRows(k) ==
    /\ Len(store[TableOf(k)]) >= Len(store0[TableOf(k)])
    /\ SubSeq(store[TableOf(k)], 1, Len(store0[TableOf(k)])) = store0[TableOf(k)]

\* C9: store write failure isolation.  When a cycle has ended in which the
\* insert of one kind failed, the insert of each other kind that has a record
\* was attempted, every insert that succeeded left its row in its table, and
\* no row the tables held before was removed.
C9_WriteFailureIsolation ==
    EtlDone =>
        \A k \in Kinds : Outcome("insert", k, "error") =>
            \A j \in Kinds \ {k} :
                /\ Truthy(transformed[j]) => Called("insert", j)
                /\ Outcome("insert", j, "ok") => Inserted(j)
                /\ KeepsOldRows(j)

\* the generation insert failed between two inserts that succeeded
C9_Witness ==
    /\ EtlDone
    /\ Outcome("insert", "intensity", "ok") /\ Inserted("intensity")
    /\ Outcome("insert", "generation", "error")
    /\ Outcome("insert", "regional", "ok") /\ Inserted("regional")
    /\ Len(store0["carbon_intensity"]) > 0

----------------------------------------------------------------------------
Finished == pc = "done" /\ ~escaped

\* C10: cycle completion.  Whatever the fetch, transform and insert outcomes,
\* a started run_etl_pipeline eventually finishes with no exception having
\* escaped it, and so does a started run_cleanup_only whatever the delete
\* outcomes.
C10_CycleCompletion ==
    /\ (pc = "extract_intensity") ~> Finished
    /\ (pc = "cleanup") ~> Finished
    /\ [](~escaped)

\* a cycle finished after a fetch failure, a transform failure and an insert
\* failure
C10_Witness ==
    /\ EtlDone /\ Finished
    /\ FetchFailed("intensity")
    /\ FetchOk("generation") /\ transformed["generation"] = None
    /\ Outcome("insert", "regional", "error")

----------------------------------------------------------------------------
(* The transform functions and the dashboard's computation applied to      *)
(* bounded sets of inputs: arg is the input, ret the result.               *)

\* longest generation mix
MaxMix == 3
\* most regions in a regional payload
MaxRegions == 11

Fuels == {"wind", "solar", "hydro", "biomass", "gas"}
Percs == {0, 40, 60}

RECURSIVE SeqsUpTo(_, _)
SeqsUpTo(S, n) ==
    IF n = 0 THEN {<<>>}
    ELSE LET shorter == SeqsUpTo(S, n - 1) IN
         shorter \cup {Append(q, e) : q \in shorter, e \in S}

Mixes == SeqsUpTo({Entry(f, p) : f \in Fuels, p \in Percs}, MaxMix)

GenerationPayload(mix) ==
    JObj([data |-> JObj([from |-> JStr("t0"), to |-> JStr("t1"),
                         generationmix |-> JArr(mix)])])

\* region i of a payload: its forecast, or no forecast key, or no intensity
RegionOf(i, forecast, missing) ==
    CASE missing = "forecast" ->
            JObj([regionid |-> JNum(i), intensity |-> JObj([index |-> JStr("low")])])
      [] missing = "intensity" -> JObj([regionid |-> JNum(i)])
      [] OTHER -> Region(i, forecast)

\* n regions with forecasts (step * i) % modulus - 1, region `hole` without
\* the key named by `missing`
RegionalPayload(n, step, modulus, hole, missing) ==
    JObj([data |-> JArr(<<JObj([from |-> JStr("t0"), to |-> JStr("t1"),
        regions |-> JArr([i \in 1..n |->
            RegionOf(i, ((step * i) % modulus) - 1,
                     IF i = hole THEN missing ELSE "none")])])>>)])

RegionalInputs ==
    { RegionalPayload(n, step, modulus, hole, missing) :
        n \in 0..MaxRegions, step \in 1..3, modulus \in {1, 2, 3, 5},
        hole \in 0..MaxRegions, missing \in {"forecast", "intensity"} }

IdleProcess ==
    /\ env_ok = TRUE
    /\ cleanup_only = FALSE
    /\ now = StartTime
    /\ utcoffset = 0
    /\ raw = NoLocals
    /\ transformed = NoLocals
    /\ saved = NoLocals
    /\ cutoff_iso = Unbound
    /\ store = [t \in Tables |-> <<>>]
    /\ store0 = store
    /\ calls = <<>>
    /\ escaped = FALSE
    /\ invocation = 1

processVars == <<env_ok, cleanup_only, now, utcoffset, raw, transformed, saved, cutoff_iso,
                 store, store0, calls, escaped, invocation>>

GenInit ==
    /\ pc = "call"
    /\ arg \in {GenerationPayload(mix) : mix \in Mixes}
    /\ ret = Unbound
    /\ IdleProcess

CallTransformGeneration ==
    /\ pc = "call"
    /\ ret' = transform_generation_data(arg)
    /\ pc' = "return"
    /\ UNCHANGED <<arg, processVars>>

GenSpec == GenInit /\ [][CallTransformGeneration]_vars

RegInit ==
    /\ pc = "call"
    /\ arg \in RegionalInputs
    /\ ret = Unbound
    /\ IdleProcess

CallTransformRegional ==
    /\ pc = "call"
    /\ ret' = transform_regional_data(arg)
    /\ pc' = "return"
    /\ UNCHANGED <<arg, processVars>>

RegSpec == RegInit /\ [][CallTransformRegional]_vars

----------------------------------------------------------------------------
\* json.loads of the text json.dumps wrote
Loads(text) == text.v

MixIn == arg.o["data"].o["generationmix"].a
MixOut == Loads(ret.o["generation_mix"]).a

\* the entries of a mix whose perc is q, in their order
WithPerc(mix, q) == SelectSeq(mix, LAMBDA e : e.o["perc"].n = q)

\* C5: for every valid generation-mix payload the generation_mix written by
\* transform_generation_data, read back from its JSON text, is the stable
\* descending sort of the input: as long as the input, adjacent entries of
\* non-increasing perc, and for every perc the entries of that perc are those
\* of the input, unchanged and in their input order.
C5_StableDescendingSort ==
    pc = "return" =>
        /\ IsDict(ret)
        /\ ret.o["generation_mix"].t = "json_str"
        /\ Len(MixOut) = Len(MixIn)
        /\ \A i \in 1..(Len(MixOut) - 1) :
               MixOut[i].o["perc"].n >= MixOut[i + 1].o["perc"].n
        /\ \A q \in Percs : WithPerc(MixOut, q) = WithPerc(MixIn, q)

\* an input whose tie (wind 40, gas 40) follows a smaller entry
C5_Witness ==
    /\ pc = "return"
    /\ MixIn = <<Entry("hydro", 0), Entry("wind", 40), Entry("gas", 40)>>
    /\ MixOut = <<Entry("wind", 40), Entry("gas", 40), Entry("hydro", 0)>>

----------------------------------------------------------------------------
RegionsIn == arg.o["data"].a[1].o["regions"].a
RegionsOut == ret.o["regions"].a

\* the forecast a region sorts by: its intensity.forecast, 0 when it has none
SortForecast(r) ==
    IF HasKey(r, "intensity") /\ HasKey(r.o["intensity"], "forecast")
    THEN r.o["intensity"].o["forecast"].n
    ELSE 0

WithForecast(regions, q) == SelectSeq(regions, LAMBDA r : SortForecast(r) = q)

Min(a, b) == IF a < b THEN a ELSE b

\* C6: for every valid regional payload with n regions the regions written
\* by transform_regional_data are the first min(n, 10) entries of the stable
\* descending sort of the input by intensity.forecast, a missing forecast
\* counting as 0: min(n, 10) entries, adjacent entries of non-increasing
\* forecast, for every forecast value the output entries of that value are
\* the first input entries of that value, unchanged (no forecast written into
\* an entry that has none) and in input order, and an entry is left out only
\* if no entry of a smaller forecast is kept.
C6_TopTenStableSort ==
    pc = "return" =>
        /\ IsDict(ret)
        /\ Len(RegionsOut) = Min(Len(RegionsIn), TopK)
        /\ \A i \in 1..(Len(RegionsOut) - 1) :
               SortForecast(RegionsOut[i]) >= SortForecast(RegionsOut[i + 1])
        /\ \A i \in 1..Len(RegionsOut) :
               \E j \in 1..Len(RegionsIn) : RegionsOut[i] = RegionsIn[j]
        /\ \A j \in 1..Len(RegionsIn) :
               LET q == SortForecast(RegionsIn[j])
                   kept == WithForecast(RegionsOut, q)
                   all == WithForecast(RegionsIn, q)
               IN /\ Len(kept) <= Len(all)
                  /\ kept = SubSeq(all, 1, Len(kept))
                  /\ Len(kept) < Len(all) =>
                        \A i \in 1..Len(RegionsOut) :
                            SortForecast(RegionsOut[i]) >= q

\* more than ten regions, cut to ten, a region without forecast kept ahead
\* of a region with a negative forecast
C6_Witness ==
    /\ pc = "return"
    /\ Len(RegionsIn) = TopK + 1
    /\ Len(RegionsOut) = TopK
    /\ \E i \in 1..(TopK - 1) :
          /\ HasKey(RegionsOut[i], "intensity")
          /\ ~HasKey(RegionsOut[i].o["intensity"], "forecast")
          /\ SortForecast(RegionsOut[i + 1]) < 0

----------------------------------------------------------------------------
(* The dashboard (src/dashboard.py): renewable percentage of a snapshot *)

RENEWABLE_SOURCES == {"solar", "wind", "hydro", "biomass"}

\* pd.DataFrame(v) does not raise: v is a list of dicts (a str raises
\* ValueError, "DataFrame constructor not properly called!")
CanFrame(v) == IsList(v) /\ \A i \in 1..Len(v.a) : IsDict(v.a[i])

\* the columns of pd.DataFrame(v): the keys of its dicts; none for []
Columns(v) == UNION {DOMAIN v.a[i].o : i \in 1..Len(v.a)}

\* df[df['fuel'].isin(RENEWABLE_SOURCES)]: the rows whose fuel is one of the
\* sources (a row without fuel holds NaN, which is none of them)
RenewableRows(v) ==
    SelectSeq(v.a, LAMBDA e : /\ HasKey(e, "fuel")
                              /\ e.o["fuel"].t = "str"
                              /\ e.o["fuel"].s \in RENEWABLE_SOURCES)

\* renewable_df['perc'].sum(): NaN of a row without perc is skipped, the sum
\* of no rows is 0
RECURSIVE PercSum(_)
PercSum(rows) ==
    IF rows = <<>> THEN 0
    ELSE KeyNum(Get(rows[1], "perc", None)) + PercSum(Tail(rows))

\* df['fuel'] and renewable_df['perc'] do not raise KeyError
CanSelect(v) == CanFrame(v) /\ {"fuel", "perc"} \subseteq Columns(v)

\* dashboard.py:45-48; the name stays unbound when a line raises, and the
\* except of dashboard.py:54 shows the error
renewable_percentage(generation_mix) ==
    IF CanSelect(generation_mix)
    THEN JNum(PercSum(RenewableRows(generation_mix)))
    ELSE Unbound

\* dashboard.py:176-179
renewable_pct(gen_mix) ==
    IF CanSelect(gen_mix)
    THEN IF RenewableRows(gen_mix) # <<>>
         THEN JNum(PercSum(RenewableRows(gen_mix)))
         ELSE JNum(0)
    ELSE Unbound

\* what select('*') returns for a generation_mix column written from the str
\* of json.dumps: the str itself when the store keeps the JSON string, the
\* list when the store parses the text into the column
ReadBack(text) == {text, Loads(text)}

\* the snapshots run_etl_pipeline can have stored
StoredMixes ==
    {transform_generation_data(body) :
        body \in {GenerationPayload(mix) : mix \in Mixes} \cup {ErrorBody}}

LatestSnapshot == store["generation_mix"][Len(store["generation_mix"])]

DashInit ==
    /\ pc = "dashboard"
    /\ env_ok = TRUE
    /\ cleanup_only = FALSE
    /\ now = StartTime
    /\ utcoffset = 0
    /\ raw = NoLocals
    /\ transformed = NoLocals
    /\ saved = NoLocals
    /\ cutoff_iso = Unbound
    /\ \E snapshot \in StoredMixes :
          store = [t \in Tables |->
                      IF t = "generation_mix" THEN <<Row(snapshot, StartTime)>>
                      ELSE <<>>]
    /\ store0 = store
    /\ calls = <<>>
    /\ escaped = FALSE
    /\ invocation = 1
    /\ arg \in ReadBack(LatestSnapshot.data.o["generation_mix"])
    /\ ret = Unbound

\* dashboard.py:37-55: the key metric of the latest snapshot
KeyMetric ==
    /\ pc = "dashboard"
    /\ ret' = JObj([renewable_percentage |-> renewable_percentage(arg)])
    /\ pc' = "tabs"
    /\ UNCHANGED <<arg, processVars>>

\* dashboard.py:163-182: the trend entry of the same snapshot
Trend ==
    /\ pc = "tabs"
    /\ ret' = JObj([renewable_percentage |-> ret.o["renewable_percentage"],
                    renewable_pct |-> renewable_pct(arg)])
    /\ pc' = "rendered"
    /\ UNCHANGED <<arg, processVars>>

DashSpec == DashInit /\ [][KeyMetric \/ Trend]_vars

SnapshotMix == Loads(LatestSnapshot.data.o["generation_mix"]).a

RECURSIVE SumOfPerc(_, _)
\* the sum of perc over the entries of mix whose fuel is in fuels
SumOfPerc(mix, fuels) ==
    IF mix = <<>> THEN 0
    ELSE (IF mix[1].o["fuel"].s \in fuels THEN mix[1].o["perc"].n ELSE 0)
         + SumOfPerc(Tail(mix), fuels)

WellFormedMix(mix) ==
    /\ \A i \in 1..Len(mix) : mix[i].o["perc"].n >= 0
    /\ SumOfPerc(mix, Fuels) <= 100

\* C7: for the stored snapshot the dashboard's key metric and its trend
\* entry both are the sum of perc over the entries whose fuel is solar,
\* wind, hydro or biomass, hence equal to each other, and the value is
\* within 0..100 when the percentages are non-negative and sum to at
\* most 100.
C7_RenewablePercentage ==
    pc = "rendered" =>
        LET expected == JNum(SumOfPerc(SnapshotMix, {"solar", "wind", "hydro", "biomass"})) IN
        /\ ret.o["renewable_percentage"] = expected
        /\ ret.o["renewable_pct"] = expected
        /\ WellFormedMix(SnapshotMix) => expected.n \in 0..100

\* the same statement for the snapshots the dashboard reads as a non-empty
\* list
C7_WhenReadAsNonEmptyList ==
    (pc = "rendered" /\ IsList(arg) /\ arg.a # <<>>) =>
        LET expected == JNum(SumOfPerc(SnapshotMix, {"solar", "wind", "hydro", "biomass"})) IN
        /\ ret.o["renewable_percentage"] = expected
        /\ ret.o["renewable_pct"] = expected
        /\ WellFormedMix(SnapshotMix) => expected.n \in 0..100

\* the snapshot of a payload without generationmix, read as the empty list
C7_EmptyMixShown ==
    /\ pc = "rendered"
    /\ arg = EmptyList
    /\ ret.o["renewable_percentage"] = Unbound
    /\ ret.o["renewable_pct"] = Unbound


----------------------------------------------------------------------------
(* A sequence of invocations: the program is started again after it has
   ended, with or without --cleanup-only, on the same store (main.py:239-258) *)

MaxInvocations == 2

\* the hours between the end of one invocation and the start of the next
Waits == {1, Retention}

NextInvocation ==
    /\ pc = "done"
    /\ invocation < MaxInvocations
    /\ invocation' = invocation + 1
    /\ \E wait \in Waits : now' = now + wait
    /\ cleanup_only' \in BOOLEAN
    /\ pc' = "main"
    /\ raw' = NoLocals
    /\ transformed' = NoLocals
    /\ saved' = NoLocals
    /\ cutoff_iso' = Unbound
    /\ calls' = <<>>
    /\ escaped' = FALSE
    /\ store0' = store
    /\ UNCHANGED <<env_ok, utcoffset, store, arg, ret>>

\* a configured host and a store whose tables hold old and new rows, or none
SeqInit ==
    /\ Init
    /\ env_ok
    /\ store \in {StoreOf([k \in Kinds |-> "mixed"]), StoreOf([k \in Kinds |-> "empty"])}

\* the responses of a sequence of invocations: a fetch fails by the network
\* or returns the service's valid body
SeqBodies(k) ==
    {CASE k = "intensity" -> ValidIntensity
       [] k = "generation" -> ValidGeneration
       [] k = "regional" -> ValidRegional}

SeqResponses ==
    /\ \A k \in Kinds : raw[k] \in {Unbound, None} \cup SeqBodies(k)
    /\ \A i \in 1..Len(calls) :
          calls[i].op = "get" => calls[i].outcome \in {"ok", "network_error"}

SeqNext ==
    \/ Next /\ SeqResponses'
    \/ NextInvocation

SeqSpec == SeqInit /\ [][SeqNext]_vars

Rows(table) == {table[i] : i \in 1..Len(table)}

\* the table after the step is the table before it with rows appended
OnlyAdds(t) ==
    /\ Len(store'[t]) >= Len(store[t])
    /\ SubSeq(store'[t], 1, Len(store[t])) = store[t]

\* the table after the step holds rows of the table before it, unchanged and
\* in their order, and each row left out was written before the instant the
\* store reads from the cutoff the sweep sent
OnlyRemovesOlderThanCutoff(t) ==
    /\ Rows(store'[t]) \subseteq Rows(store[t])
    /\ store'[t] = SelectSeq(store[t], LAMBDA r : r \in Rows(store'[t]))
    /\ \A r \in Rows(store[t]) \ Rows(store'[t]) :
          /\ cutoff_iso # Unbound
          /\ r.created_at < ParseTimestamp(cutoff_iso)

\* the external calls of this invocation are those of one branch of __main__
OneOfTwo ==
    /\ cleanup_only =>
          \A k \in Kinds : ~Called("get", k) /\ ~Called("insert", k)
    /\ ~cleanup_only => \A k \in Kinds : ~Called("delete", k)
    /\ CleanupDone => Called("delete", "intensity")
    /\ EtlDone => \A k \in Kinds : CallCount("get", k) = 1
    /\ pc = "done" /\ ~env_ok => calls = <<>>

----------------------------------------------------------------------------
\* the statement of run_etl_pipeline for resource k has been executed
Fetched(k) == raw[k] # Unbound
Transformed(k) == transformed[k] # Unbound
Loaded(k) == saved[k] # Unbound

\* the resources in the order of the statements, each with the next one
Successive == {<<"intensity", "generation">>, <<"generation", "regional">>}

FetchTransformLoad ==
    \A k \in Kinds : (Transformed(k) => Fetched(k)) /\ (Loaded(k) => Transformed(k))

\* C12, as claimed: within one ETL cycle each resource is fetched, then
\* transformed, then loaded, and a resource's fetch begins only when the
\* resource before it (order intensity, generation, regional) has been loaded.
C12_PipelinesOneAfterAnother ==
    ~cleanup_only =>
        /\ FetchTransformLoad
        /\ \A p \in Successive : Fetched(p[2]) => Loaded(p[1])

\* C12, amended: within one ETL cycle each resource is fetched, then
\* transformed, then loaded; the cycle runs in three phases, all fetches,
\* then all transforms, then all loads, each phase in the order intensity,
\* generation, regional; so all three resources are fetched before the first
\* is transformed and all are transformed before the first is loaded; and
\* the cycle ends with the three loads done.
C12_PhaseOrder ==
    ~cleanup_only =>
        /\ FetchTransformLoad
        /\ \A p \in Successive :
              /\ Fetched(p[2]) => Fetched(p[1])
              /\ Transformed(p[2]) => Transformed(p[1])
              /\ Loaded(p[2]) => Loaded(p[1])
        /\ Transformed("intensity") => \A k \in Kinds : Fetched(k)
        /\ Loaded("intensity") => \A k \in Kinds : Transformed(k)
        /\ EtlDone => \A k \in Kinds : Loaded(k)

\* a cycle in which the three resources are fetched and transformed and
\* intensity is about to be loaded: regional's fetch has come before it
C12_Witness ==
    /\ ~cleanup_only
    /\ pc = "load_intensity"
    /\ \A k \in Kinds : FetchOk(k) /\ Transformed(k) /\ ~Loaded(k)


============================================================================
